---- MODULE Spec2Model ----
(***************************************************************************)
(* Model of app/streamlit_app.py: the memoized loader load_data, the page  *)
(* routine main with its two sidebar widgets, and the analytics the        *)
(* modules compute inline (risk threshold, department aggregation,         *)
(* rankings, most affected department, full-table export).                 *)
(*                                                                         *)
(* Temperatures are whole degrees; thresholds are kept in tenths of a      *)
(* degree so that the interpolated 10th percentile is exact.               *)
(***************************************************************************)
EXTENDS Integers, Sequences, FiniteSets

\* ------------------------------------------------------------------ bounds
MaxRows == 3        \* rows of a table already held by the loader's memo
MaxFileRows == 2    \* rows of a statistics file read during a session
MaxReloads == 1     \* explicit cache clears in one session

\* ----------------------------------------------------------- value domains
\* A missing numeric value (never a temperature, in degrees or in tenths).
NaN == -999
\* Python's None, where a table or a metrics document is expected
None == [none |-> TRUE]
\* The memo of load_data before its first call and after a clear
NoCache == [cached |-> FALSE]

\* Names in ascending string order, as Python compares them.
Names == <<"A", "B", "X", "Y">>
Ord(s) == CHOOSE i \in 1..Len(Names) : Names[i] = s

Departamentos == {"X", "Y"}
Distritos == {"A", "B"}
Means == {-5, 2, 10, NaN}

required_columns == {"DEPARTAMEN", "PROVINCIA", "DISTRITO", "mean", "min", "max", "std"}
optional_columns == {"count", "percentile_10", "percentile_90", "range"}
AllColumns == required_columns \cup optional_columns

opciones_menu == {"Resumen Ejecutivo", "Estadisticas Zonales", "Analisis Visual Avanzado",
                  "Cartografia Tematica", "Centro de Descarga", "Marco de Politicas Publicas"}

TopN == 15
TopDepts == 8
RiskDepts == 10

\* ------------------------------------------------------------ sequences
SeqsUpTo(S, n) == UNION {[1..k -> S] : k \in 0..n}

\* The elements of s at the indices in I, in their order in s.
SubSeqAt(s, I) ==
    LET pos(i) == Cardinality({j \in I : j < i}) + 1
    IN [k \in 1..Cardinality(I) |-> s[CHOOSE i \in I : pos(i) = k]]

Head_n(s, n) == IF Len(s) <= n THEN s ELSE SubSeq(s, 1, n)

\* Stable ordering of the indices I by the integer key k[i]: ascending, or
\* descending with ties still in order of appearance (mergesort on the
\* negated key).
StableOrder(I, k, ascending) ==
    LET before(j, i) == \/ (IF ascending THEN k[j] < k[i] ELSE k[j] > k[i])
                        \/ (k[j] = k[i] /\ j < i)
        pos(i) == Cardinality({j \in I : before(j, i)}) + 1
    IN [p \in 1..Cardinality(I) |-> CHOOSE i \in I : pos(i) = p]

\* ------------------------------------------------------------ pandas
\* rows[i].mean for the rows whose mean is not missing
NotNa(rows) == {i \in DOMAIN rows : rows[i].mean # NaN}
IsNa(rows) == {i \in DOMAIN rows : rows[i].mean = NaN}
MeanKey(rows) == [i \in DOMAIN rows |-> IF rows[i].mean = NaN THEN 0 ELSE rows[i].mean]

\* Series.quantile(0.1), in tenths of a degree: linear interpolation at
\* position (n-1)*0.1 of the sorted non-missing values; NaN when there are none.
quantile_lower(rows) ==
    LET I == NotNa(rows)
        o == StableOrder(I, MeanKey(rows), TRUE)
    IN IF I = {} THEN NaN ELSE 10 * rows[o[((Cardinality(I) - 1) \div 10) + 1]].mean

quantile(rows) ==
    LET I == NotNa(rows)
        n == Cardinality(I)
        o == StableOrder(I, MeanKey(rows), TRUE)
        lo == (n - 1) \div 10
        frac10 == (n - 1) % 10
        v(j) == rows[o[j]].mean
    IN IF n = 0 THEN NaN
       ELSE IF frac10 = 0 THEN 10 * v(lo + 1)
       ELSE 10 * v(lo + 1) + frac10 * (v(lo + 2) - v(lo + 1))

\* datos['mean'] <= umbral, umbral in tenths; a comparison with NaN is False
AtOrBelow(row, umbral) == row.mean # NaN /\ umbral # NaN /\ 10 * row.mean <= umbral

high_risk(rows, umbral) == SubSeqAt(rows, {i \in DOMAIN rows : AtOrBelow(rows[i], umbral)})

\* datos[datos['DEPARTAMEN'] == dept]
filter_dept(rows, dept) == SubSeqAt(rows, {i \in DOMAIN rows : rows[i].DEPARTAMEN = dept})

\* groupby('DEPARTAMEN'): the group keys, sorted ascending
groupby_keys(rows) ==
    LET K == {rows[i].DEPARTAMEN : i \in DOMAIN rows}
        pos(d) == Cardinality({e \in K : Ord(e) < Ord(d)}) + 1
    IN [p \in 1..Cardinality(K) |-> CHOOSE d \in K : pos(d) = p]

\* groupby('DEPARTAMEN').size(): rows per group
groupby_size(rows) ==
    LET keys == groupby_keys(rows)
    IN [p \in DOMAIN keys |->
            [DEPARTAMEN |-> keys[p],
             size |-> Cardinality({i \in DOMAIN rows : rows[i].DEPARTAMEN = keys[p]})]]

\* groupby('DEPARTAMEN')['mean'].count(): rows per group whose mean is present
groupby_count(rows) ==
    LET keys == groupby_keys(rows)
    IN [p \in DOMAIN keys |->
            [DEPARTAMEN |-> keys[p],
             count |-> Cardinality({i \in NotNa(rows) : rows[i].DEPARTAMEN = keys[p]})]]

\* Series.idxmax(): the label of the first occurrence of the maximum;
\* raises ValueError on an empty series (None here).
idxmax_last(sizes) ==
    IF Len(sizes) = 0 THEN None
    ELSE sizes[CHOOSE p \in DOMAIN sizes :
                   /\ \A r \in DOMAIN sizes : sizes[r].size <= sizes[p].size
                   /\ \A r \in DOMAIN sizes : sizes[r].size = sizes[p].size => r <= p].DEPARTAMEN

idxmax(sizes) ==
    IF Len(sizes) = 0 THEN None
    ELSE sizes[CHOOSE p \in DOMAIN sizes :
                   /\ \A r \in DOMAIN sizes : sizes[r].size <= sizes[p].size
                   /\ \A r \in DOMAIN sizes : sizes[r].size = sizes[p].size => p <= r].DEPARTAMEN

\* DataFrame.nsmallest(n, 'mean') / nlargest(n, 'mean') with keep='first':
\* ordered by mean, equal means in order of appearance, missing means last.
nsmallest(n, rows) ==
    LET o == StableOrder(NotNa(rows), MeanKey(rows), TRUE)
    IN Head_n([p \in DOMAIN o |-> rows[o[p]]] \o SubSeqAt(rows, IsNa(rows)), n)

nlargest(n, rows) ==
    LET o == StableOrder(NotNa(rows), MeanKey(rows), FALSE)
    IN Head_n([p \in DOMAIN o |-> rows[o[p]]] \o SubSeqAt(rows, IsNa(rows)), n)



\* groupby('DEPARTAMEN')['mean'].agg(['count', 'mean']): per group, the number
\* of present means and their sum (the group mean is sum/count, NaN for count 0)
RECURSIVE SumMeans(_, _)
SumMeans(rows, I) ==
    IF I = {} THEN 0
    ELSE LET i == CHOOSE j \in I : TRUE IN rows[i].mean + SumMeans(rows, I \ {i})

groupby_agg(rows) ==
    LET keys == groupby_keys(rows)
        G(p) == {i \in NotNa(rows) : rows[i].DEPARTAMEN = keys[p]}
    IN [p \in DOMAIN keys |->
            [DEPARTAMEN |-> keys[p], count |-> Cardinality(G(p)), sum |-> SumMeans(rows, G(p))]]

\* .sort_values('mean'): ascending group mean, equal means in index order,
\* groups without a mean last
sort_by_mean(agg) ==
    LET has(p) == agg[p].count > 0
        before(q, p) ==
            \/ has(q) /\ ~has(p)
            \/ has(q) /\ has(p) /\ agg[q].sum * agg[p].count < agg[p].sum * agg[q].count
            \/ has(q) /\ has(p) /\ agg[q].sum * agg[p].count = agg[p].sum * agg[q].count /\ q < p
            \/ ~has(q) /\ ~has(p) /\ q < p
        pos(p) == Cardinality({q \in DOMAIN agg : before(q, p)}) + 1
    IN [k \in DOMAIN agg |-> agg[CHOOSE p \in DOMAIN agg : pos(p) = k]]

\* .sort_values(ascending=False) of a size series: largest first, equal sizes
\* in index order
sort_by_size_desc(sizes) ==
    LET o == StableOrder(DOMAIN sizes, [p \in DOMAIN sizes |-> sizes[p].size], FALSE)
    IN [k \in DOMAIN sizes |-> sizes[o[k]]]

\* .count().nlargest(n).index: the keys of the n largest counts
nlargest_index(n, counts) ==
    LET o == StableOrder(DOMAIN counts, [p \in DOMAIN counts |-> counts[p].count], FALSE)
    IN Head_n([k \in DOMAIN counts |-> counts[o[k]].DEPARTAMEN], n)

\* DataFrame.to_csv(index=False): the header line and one line per row
to_csv(datos) == [header |-> datos.columns, lines |-> datos.rows]

\* ------------------------------------------------------------ sources
Rows(depts, distritos, means) == [DEPARTAMEN : depts, DISTRITO : distritos, mean : means]

\* The statistics file as read_csv finds it: absent, unreadable, or a header
\* (one required column, or the optional column count, may be missing) and rows.
Headers == {AllColumns} \cup {AllColumns \ {c} : c \in required_columns \cup {"count"}}

FileRows == {[DEPARTAMEN |-> "X", DISTRITO |-> "A", mean |-> -5],
             [DEPARTAMEN |-> "Y", DISTRITO |-> "B", mean |-> 10]}
FileTables == SeqsUpTo(FileRows, MaxFileRows)

StatsFiles == {[kind |-> "absent"], [kind |-> "malformed"]}
              \cup [kind : {"table"}, columns : Headers, rows : FileTables]

\* metricas_resumen.json: absent, not JSON, or a document
Umbrales == {-36, 20}
\* (a record written for a table of two rows, one of them at risk)
MetricasDocs == [umbral_alto_riesgo : Umbrales, total_distritos : {2},
                 distritos_alto_riesgo : {1}]
MetricasFiles == {[kind |-> "absent"], [kind |-> "malformed"]}
                 \cup [kind : {"doc"}, doc : MetricasDocs]

\* The metrics document beside a table already in the memo
LoadedDocs == [umbral_alto_riesgo : {20}, total_distritos : {2}, distritos_alto_riesgo : {1}]

\* Tables a successful load may have left in the memo: at least one row, one
\* row per district (a district is identified by department and name)
UniqueKeys(rows) ==
    \A i, j \in DOMAIN rows :
        rows[i].DEPARTAMEN = rows[j].DEPARTAMEN /\ rows[i].DISTRITO = rows[j].DISTRITO => i = j

Tables == {t \in SeqsUpTo(Rows(Departamentos, Distritos, Means), MaxRows) :
               t # <<>> /\ UniqueKeys(t)}

\* ------------------------------------------------------------ load_data
Failure(error) == [cached |-> TRUE, datos |-> None, metricas |-> None, error |-> error]

\* A loader that reports a missing column but still hands the table on.
load_data_partial(stats, metricas) ==
    IF stats.kind = "absent" THEN Failure("not_found")
    ELSE IF stats.kind = "malformed" THEN Failure("unexpected")
    ELSE IF metricas.kind = "absent" THEN Failure("not_found")
    ELSE IF metricas.kind = "malformed" THEN Failure("unexpected")
    ELSE IF Len(stats.rows) = 0 \/ stats.columns = {} THEN Failure("empty")
    ELSE [cached |-> TRUE, datos |-> [columns |-> stats.columns, rows |-> stats.rows],
          metricas |-> metricas.doc,
          error |-> IF required_columns \ stats.columns # {} THEN "schema" ELSE "none"]

\* The body of load_data: what it returns and which st.error it shows
\* (error "none": no st.error). The files are read first, then stats.empty
\* is tested, then the required columns.
load_data(stats, metricas) ==
    IF stats.kind = "absent" THEN Failure("not_found")
    ELSE IF stats.kind = "malformed" THEN Failure("unexpected")
    ELSE IF metricas.kind = "absent" THEN Failure("not_found")
    ELSE IF metricas.kind = "malformed" THEN Failure("unexpected")
    ELSE IF Len(stats.rows) = 0 \/ stats.columns = {} THEN Failure("empty")
    ELSE IF required_columns \ stats.columns # {} THEN Failure("schema")
    ELSE [cached |-> TRUE, datos |-> [columns |-> stats.columns, rows |-> stats.rows],
          metricas |-> metricas.doc, error |-> "none"]

\* @st.cache_data: the body runs, and the files are read, only when the memo
\* holds no entry; the files may hold anything at that moment.
NoRead == [read |-> FALSE]
Disk == [read : {TRUE}, stats : StatsFiles, metricas : MetricasFiles]

st_cache_data_off(memo) == Disk

st_cache_data(memo) == IF memo = NoCache THEN Disk ELSE {NoRead}


\* ------------------------------------------------------------ modules
\* metric_total, metric_alto_riesgo: the two metrics of the document as the
\* executive summary displays them.
\* What one run of main leaves on the page. modulo: the module routed to
\* ("none" before the first run, "error" for the critical-error return);
\* raised: the exception a module ended with; the other fields are the
\* values the modules compute (umbral_riesgo: the threshold used to
\* classify high-risk districts, in tenths).
NoCsv == [header |-> {}, lines |-> <<>>]

EmptyPage ==
    [modulo |-> "none", raised |-> "none", load_error |-> "none",
     metric_total |-> 0, metric_alto_riesgo |-> 0,
     umbral_riesgo |-> NaN, dept_mas_afectado |-> "None", distritos_afectados |-> 0,
     frios |-> <<>>, calidos |-> <<>>, dept_stats |-> <<>>, riesgo_por_dept |-> <<>>,
     top_depts |-> <<>>, total_distritos |-> 0, distritos_datos_validos |-> 0,
     csv_completo |-> NoCsv]

show_executive_summary(metricas, datos) ==
    LET umbral == metricas.umbral_alto_riesgo
        sizes == groupby_size(high_risk(datos.rows, umbral))
        P == [EmptyPage EXCEPT !.modulo = "Resumen Ejecutivo",
                               !.metric_total = metricas.total_distritos,
                               !.metric_alto_riesgo = metricas.distritos_alto_riesgo,
                               !.umbral_riesgo = umbral]
    IN IF Len(sizes) = 0
       THEN [P EXCEPT !.raised = "ValueError"]
       ELSE [P EXCEPT !.dept_mas_afectado = idxmax(sizes),
                      !.distritos_afectados =
                          CHOOSE m \in {sizes[p].size : p \in DOMAIN sizes} :
                              \A p \in DOMAIN sizes : sizes[p].size <= m]

show_zonal_statistics(datos) ==
    LET P == [EmptyPage EXCEPT !.modulo = "Estadisticas Zonales",
                               !.total_distritos = Len(datos.rows),
                               !.distritos_datos_validos = Cardinality(NotNa(datos.rows))]
    IN IF "count" \in datos.columns THEN P ELSE [P EXCEPT !.raised = "KeyError"]

create_advanced_distribution_plot(P, datos) ==
    [P EXCEPT !.top_depts = nlargest_index(TopDepts, groupby_count(datos.rows))]

create_ranking_visualization(P, datos) ==
    LET umbral_riesgo == quantile(datos.rows)
    IN [P EXCEPT !.frios = nsmallest(TopN, datos.rows),
                 !.calidos = nlargest(TopN, datos.rows),
                 !.dept_stats = sort_by_mean(groupby_agg(datos.rows)),
                 !.umbral_riesgo = umbral_riesgo,
                 !.riesgo_por_dept =
                     Head_n(sort_by_size_desc(groupby_size(high_risk(datos.rows, umbral_riesgo))),
                            RiskDepts)]

show_advanced_visualizations(datos) ==
    create_ranking_visualization(
        create_advanced_distribution_plot(
            [EmptyPage EXCEPT !.modulo = "Analisis Visual Avanzado"], datos),
        datos)

show_static_map == [EmptyPage EXCEPT !.modulo = "Cartografia Tematica"]

show_data_download(datos) ==
    [EmptyPage EXCEPT !.modulo = "Centro de Descarga", !.csv_completo = to_csv(datos)]

show_public_policies == [EmptyPage EXCEPT !.modulo = "Marco de Politicas Publicas"]

\* ------------------------------------------------------------ main
\* ['Todos'] + sorted(datos['DEPARTAMEN'].unique().tolist()), as a set
departamentos(datos) == {"Todos"} \cup {datos.rows[i].DEPARTAMEN : i \in DOMAIN datos.rows}

apply_filter(datos, filtro) ==
    IF filtro # "Todos"
    THEN [columns |-> datos.columns, rows |-> filter_dept(datos.rows, filtro)]
    ELSE datos

route(sel, metricas, datos_f) ==
    IF sel = "Resumen Ejecutivo" THEN show_executive_summary(metricas, datos_f)
    ELSE IF sel = "Estadisticas Zonales" THEN show_zonal_statistics(datos_f)
    ELSE IF sel = "Analisis Visual Avanzado" THEN show_advanced_visualizations(datos_f)
    ELSE IF sel = "Cartografia Tematica" THEN show_static_map
    ELSE IF sel = "Centro de Descarga" THEN show_data_download(datos_f)
    ELSE show_public_policies

\* One run of main on what load_data returned, with the widget values sel
\* and filtro: the locals and the page it ends with.
main(r, sel, filtro) ==
    IF r.datos = None
    THEN [datos |-> None, metricas |-> None, seleccion |-> "Resumen Ejecutivo",
          dept_filtro |-> "Todos", datos_filtrados |-> None,
          page |-> [EmptyPage EXCEPT !.modulo = "error", !.load_error = r.error]]
    ELSE LET f == IF filtro \in departamentos(r.datos) THEN filtro ELSE "Todos"
             datos_f == apply_filter(r.datos, f)
         IN [datos |-> r.datos, metricas |-> r.metricas, seleccion |-> sel,
             dept_filtro |-> f, datos_filtrados |-> datos_f,
             page |-> [route(sel, r.metricas, datos_f) EXCEPT !.load_error = r.error]]


\* ------------------------------------------------------------ state
VARIABLES
    cache,            \* the memo of load_data: NoCache or what its body returned
    source,           \* the files as the last execution of load_data's body read them
    reads,            \* executions of load_data's body so far
    reloads,          \* explicit cache clears so far
    datos,            \* main's locals after its last run
    metricas,
    seleccion,        \* the sidebar widgets
    dept_filtro,
    datos_filtrados,
    page              \* what the last run rendered

vars == <<cache, source, reads, reloads, datos, metricas, seleccion, dept_filtro,
          datos_filtrados, page>>

Init ==
    /\ cache = NoCache
    /\ source = NoRead
    /\ reads = 0
    /\ reloads = 0
    /\ datos = None
    /\ metricas = None
    /\ seleccion = "Resumen Ejecutivo"
    /\ dept_filtro = "Todos"
    /\ datos_filtrados = None
    /\ page = EmptyPage

\* The widget values a rerun can start with: the defaults while the sidebar
\* has not been rendered, else any option the sidebar offered.
WidgetChoices ==
    IF page.modulo \in {"none", "error"}
    THEN {<<"Resumen Ejecutivo", "Todos">>}
    ELSE opciones_menu \X departamentos(datos)

\* load_data() as main calls it: through the memo
Loaded(d) == IF d.read THEN load_data(d.stats, d.metricas) ELSE cache

Finish(d, r, m) ==
    /\ cache' = r
    /\ source' = IF d.read THEN d ELSE source
    /\ reads' = IF d.read THEN reads + 1 ELSE reads
    /\ datos' = m.datos
    /\ metricas' = m.metricas
    /\ seleccion' = m.seleccion
    /\ dept_filtro' = m.dept_filtro
    /\ datos_filtrados' = m.datos_filtrados
    /\ page' = m.page
    /\ UNCHANGED reloads

\* A run of main in which load_data fails: the critical error, then return
MainLoadFailed ==
    \E d \in st_cache_data(cache) :
        LET r == Loaded(d) IN
        /\ r.datos = None
        /\ Finish(d, r, main(r, "Resumen Ejecutivo", "Todos"))

\* A run of main that reaches the routing, with sel chosen in the menu
Main(sel) ==
    \E d \in st_cache_data(cache), w \in WidgetChoices :
        LET r == Loaded(d) IN
        /\ w[1] = sel
        /\ r.datos # None
        /\ Finish(d, r, main(r, sel, w[2]))

ResumenEjecutivo == Main("Resumen Ejecutivo")
EstadisticasZonales == Main("Estadisticas Zonales")
AnalisisVisualAvanzado == Main("Analisis Visual Avanzado")
CartografiaTematica == Main("Cartografia Tematica")
CentroDeDescarga == Main("Centro de Descarga")
MarcoDePoliticasPublicas == Main("Marco de Politicas Publicas")

\* The explicit reload: the memo of st.cache_data is cleared
ClearCache ==
    /\ cache # NoCache
    /\ reloads < MaxReloads
    /\ cache' = NoCache
    /\ reloads' = reloads + 1
    /\ UNCHANGED <<source, reads, datos, metricas, seleccion, dept_filtro,
                   datos_filtrados, page>>

Modules ==
    \/ ResumenEjecutivo
    \/ EstadisticasZonales
    \/ AnalisisVisualAvanzado
    \/ CartografiaTematica
    \/ CentroDeDescarga
    \/ MarcoDePoliticasPublicas

Next ==
    \/ MainLoadFailed
    \/ Modules
    \/ ClearCache

Spec == Init /\ [][Next]_vars

\* A session whose first run has loaded a valid table (any table of Tables)
\* and rendered the default page; the reruns that follow.
InitLoaded ==
    \E rows \in Tables, doc \in LoadedDocs :
        LET d == [read |-> TRUE,
                  stats |-> [kind |-> "table", columns |-> AllColumns, rows |-> rows],
                  metricas |-> [kind |-> "doc", doc |-> doc]]
            r == load_data(d.stats, d.metricas)
            m == main(r, "Resumen Ejecutivo", "Todos")
        IN /\ cache = r
           /\ source = d
           /\ reads = 1
           /\ reloads = 0
           /\ datos = m.datos
           /\ metricas = m.metricas
           /\ seleccion = m.seleccion
           /\ dept_filtro = m.dept_filtro
           /\ datos_filtrados = m.datos_filtrados
           /\ page = m.page

SpecLoaded == InitLoaded /\ [][Modules]_vars


\* ------------------------------------------------------------ properties
Classifies == {"Resumen Ejecutivo", "Analisis Visual Avanzado"}

Permutations(n) == {q \in [1..n -> 1..n] : \A i, j \in 1..n : q[i] = q[j] => i = j}
Permuted(rows, q) == [i \in DOMAIN rows |-> rows[q[i]]]

RECURSIVE SumCounts(_, _)
SumCounts(stats, I) ==
    IF I = {} THEN 0
    ELSE LET p == CHOOSE j \in I : TRUE IN stats[p].count + SumCounts(stats, I \ {p})

\* The statistics file of the last load was a readable table beside a
\* readable metrics document.
ReadTable == source.read /\ source.stats.kind = "table" /\ source.metricas.kind = "doc"

\* C1: whatever the department filter, a module that classifies high-risk
\* districts uses the 10th percentile of mean over the full loaded table
\* (stated here for tables without a missing mean whose metrics document
\* agrees with them, so that only the modules' own computation is in question).
C1_ThresholdFromFullTable ==
    (/\ page.modulo \in Classifies
     /\ NotNa(datos.rows) = DOMAIN datos.rows
     /\ metricas.umbral_alto_riesgo = quantile(datos.rows))
        => page.umbral_riesgo = quantile(datos.rows)

\* C2: a statistics file that lacks a required column (read beside a readable
\* metrics document) ends in the schema error, and load_data returns neither
\* a table nor metrics.
C2_MissingColumnIsSchemaError ==
    (ReadTable /\ required_columns \ source.stats.columns # {})
        => page.load_error = "schema" /\ datos = None /\ metricas = None

\* C3: a run of main in which load_data fails shows the critical error and
\* returns: no filter is applied and no module leaves anything on the page.
C3_LoadFailureIsTerminal ==
    page.load_error # "none"
        => /\ datos = None
           /\ metricas = None
           /\ datos_filtrados = None
           /\ page = [EmptyPage EXCEPT !.modulo = "error", !.load_error = page.load_error]

C3_Witness ==
    /\ reads = 2
    /\ page.modulo = "error"
    /\ page.load_error = "schema"
    /\ ReadTable /\ source.stats.rows # <<>>

\* C4: the export "Dataset Completo" holds every row and every column of the
\* loaded table, whatever the department filter.
C4_FullExport ==
    page.modulo = "Centro de Descarga" => page.csv_completo = to_csv(datos)

\* C5: the per-department counts of the aggregation over mean sum to the
\* number of rows of the table it was given, rows with a missing mean included.
C5_CountsSumToRows ==
    page.modulo = "Analisis Visual Avanzado"
        => SumCounts(page.dept_stats, DOMAIN page.dept_stats) = Len(datos_filtrados.rows)

\* C6: emptiness is judged after the schema: a zero-row file with all required
\* columns fails with the empty-dataset error, a zero-row file that lacks a
\* required column fails with the schema error; neither returns a table.
C6_SchemaBeforeEmptiness ==
    (ReadTable /\ source.stats.rows = <<>>)
        => /\ datos = None
           /\ page.load_error =
                  IF required_columns \ source.stats.columns # {} THEN "schema" ELSE "empty"

\* C7: between explicit reloads the files are read at most once, and every
\* rerun sees exactly the table and the metrics the memo holds, whatever the
\* files hold by then.
C7_LoadedOnce ==
    /\ [](reads <= reloads + 1)
    /\ [][(cache # NoCache /\ reloads' = reloads)
             => /\ cache' = cache
                /\ reads' = reads
                /\ source' = source
                /\ datos' = cache.datos
                /\ metricas' = cache.metricas]_vars

\* a rerun (the menu is off its default) that read nothing
C7_Witness ==
    /\ reads = 1
    /\ reloads = 0
    /\ seleccion = "Centro de Descarga"
    /\ dept_filtro # "Todos"
    /\ datos = cache.datos

\* C8: the most affected department has the largest number of rows at or
\* below umbral_alto_riesgo; among departments with that number it is the
\* first in ascending name order; the choice is the same for every order of
\* the rows.
AtRisk(rows, umbral, d) ==
    Cardinality({i \in DOMAIN rows : rows[i].DEPARTAMEN = d /\ AtOrBelow(rows[i], umbral)})

C8_MostAffected ==
    (page.modulo = "Resumen Ejecutivo" /\ page.raised = "none")
        => LET rows == datos_filtrados.rows
               n(d) == AtRisk(rows, metricas.umbral_alto_riesgo, d)
               best == page.dept_mas_afectado
           IN /\ best \in Departamentos
              /\ n(best) > 0
              /\ page.distritos_afectados = n(best)
              /\ \A d \in Departamentos :
                     /\ n(d) <= n(best)
                     /\ n(d) = n(best) => Ord(best) <= Ord(d)
              /\ \A q \in Permutations(Len(rows)) :
                     show_executive_summary(
                         metricas, [datos_filtrados EXCEPT !.rows = Permuted(rows, q)]
                     ).dept_mas_afectado = best

\* two departments tie, and the table starts with a row of the later name
C8_Witness ==
    /\ page.modulo = "Resumen Ejecutivo"
    /\ page.raised = "none"
    /\ dept_filtro = "Todos"
    /\ datos.rows[1].DEPARTAMEN = "Y"
    /\ AtOrBelow(datos.rows[1], metricas.umbral_alto_riesgo)
    /\ AtRisk(datos.rows, metricas.umbral_alto_riesgo, "X")
           = AtRisk(datos.rows, metricas.umbral_alto_riesgo, "Y")
    /\ page.dept_mas_afectado = "X"

\* C9: in the coldest and the warmest ranking, rows of equal mean follow each
\* other in ascending district name.
TiesByName(ranking) ==
    \A p \in 1..(Len(ranking) - 1) :
        (ranking[p].mean # NaN /\ ranking[p].mean = ranking[p + 1].mean)
            => Ord(ranking[p].DISTRITO) <= Ord(ranking[p + 1].DISTRITO)

C9_TiesByDistrictName ==
    page.modulo = "Analisis Visual Avanzado"
        => TiesByName(page.frios) /\ TiesByName(page.calidos)

\* C10: for the table with means -5, 10 and 2 the 0.10 threshold is -3.8,
\* to the tenth (a tenth of tolerance allowed).
ScenarioTable ==
    /\ dept_filtro = "Todos"
    /\ Len(datos.rows) = 3
    /\ datos.rows[1].mean = -5
    /\ datos.rows[2].mean = 10
    /\ datos.rows[3].mean = 2

C10_ThresholdMinus38 ==
    (page.modulo = "Analisis Visual Avanzado" /\ ScenarioTable)
        => page.umbral_riesgo \in -39..-37

\* C10, amended: the interpolated threshold of that table is -3.6
\* (-5 + 0.2 * (2 - (-5))).
C10_ThresholdMinus36 ==
    (page.modulo = "Analisis Visual Avanzado" /\ ScenarioTable)
        => page.umbral_riesgo = -36

C10_Witness ==
    /\ page.modulo = "Analisis Visual Avanzado"
    /\ ScenarioTable
    /\ page.umbral_riesgo = -36


\* C11: whenever load_data returns a table with a metrics record, the record
\* agrees with the table: distritos_alto_riesgo is the number of rows with
\* mean <= umbral_alto_riesgo and total_distritos is the number of rows; the
\* executive summary never displays a record that disagrees.
C11_MetricsConsistentWithTable ==
    datos # None
        => /\ metricas.total_distritos = Len(datos.rows)
           /\ metricas.distritos_alto_riesgo =
                  Len(high_risk(datos.rows, metricas.umbral_alto_riesgo))


\* C12: for every department filter the sidebar offers, the executive summary
\* ends without an exception; a subset without a row at or below
\* umbral_alto_riesgo yields a degenerate most-vulnerable department (stated
\* here for loaded tables that do hold such a row, so that only the filter
\* empties the subset).
C12_SummaryNeverRaises ==
    (/\ page.modulo = "Resumen Ejecutivo"
     /\ high_risk(datos.rows, metricas.umbral_alto_riesgo) # <<>>)
        => page.raised = "none"

\* C13: a statistics file with every required column but without the optional
\* column count passes validation, and every module then selectable ends
\* without an exception on it (the executive summary, whose own failure is the
\* subject of C12, left aside).
C13_OptionalCountMayBeAbsent ==
    (/\ ReadTable
     /\ source.stats.rows # <<>>
     /\ required_columns \subseteq source.stats.columns
     /\ "count" \notin source.stats.columns)
        => /\ page.load_error = "none"
           /\ datos # None
           /\ page.modulo \in opciones_menu \ {"Resumen Ejecutivo"} => page.raised = "none"

====
